---- MODULE Spec2Model ----
(***************************************************************************)
(* Client-side session / audio-streaming state machine of the ClassWaves   *)
(* student app: the Auto-Capture Controller (useSessionAudioControl), the  *)
(* Audio Capture Engine (useAudioRecorder), the outbound audio commands of *)
(* the Connection Manager (GroupKioskWebSocketService) and the session     *)
(* page's manual capture handlers.                                         *)
(*                                                                         *)
(* React semantics kept by the model: a state variable holds the latest    *)
(* value (queued updates applied); `view` holds the values of the last     *)
(* render, which are the only values handlers (closures, refs assigned     *)
(* during render) can read.  Render re-renders the page and runs the       *)
(* effect cleanups and set-ups whose dependencies changed.                 *)
(***************************************************************************)
EXTENDS Integers, Sequences, FiniteSets, TLC

\* ---- bounds -------------------------------------------------------------
MaxCycles   == 2   \* concurrent invocations of startCountdownThenRecord
MaxChunks   == 1   \* blobs accumulated in chunksRef
MaxInflight == 1   \* sendGroupAudio conversions awaiting blob.arrayBuffer()
MaxLeak     == 1   \* device streams acquired and never released
MaxPending  == 2   \* getUserMedia calls of startRecording awaiting the device

VARIABLES
  cs,          \* controlState of useSessionAudioControl (latest value)
  view,        \* values of the last render, as closed over by the handlers
  co,          \* invocations of startCountdownThenRecord awaiting a timer, per count
  timerRef,    \* the pending timer countdownTimeoutRef.current names: its count
  auto,        \* the controller's Audio Capture Engine (autoAudioRecorder)
  manual,      \* the session page's manual Audio Capture Engine
  connected,   \* socket.connected, mirrored by the store's isConnected
  groupReady,  \* store: group.isReady
  permWatch,   \* a PermissionStatus 'change' listener is installed
  devListener, \* a 'devicechange' listener is installed
  inflight,    \* sendGroupAudio calls awaiting blob.arrayBuffer()
  halted,      \* history, kept by SpecObserved: the last session-status push
               \* handled was 'ended' or 'paused'
  store,       \* the Session State Store (student-store)
  pushed,      \* history: the status of the last session:status_changed push
  uiPaused,    \* the session page's isPaused
  ws,          \* the Connection Manager (GroupKioskWebSocketService) and the
               \* transports io() created for it
  hook,        \* the connection hook's effect: set up or not, the session it closed over
  invoked,     \* the outbound command a caller of the service invoked in the last
               \* step of the manager or the hook, if any
  snap,        \* the continuity snapshot in localStorage
  now,         \* Date.now(), in units of ten minutes
  offered,     \* what the last loadPersistedSession returned
  page,        \* the session page: its route, the pending mount check, the rejoin modal
  mic,         \* hasPermission of the leader-ready control's own useAudioRecorder
  obs,         \* what the backend has seen of the current audio stream
  did          \* calls made by the last handler, in program order

vars == <<cs, view, co, timerRef, auto, manual, connected, groupReady,
          permWatch, devListener, inflight, halted, store, pushed, uiPaused,
          ws, hook, invoked, snap, now, offered, page, mic, obs, did>>

\* the Connection Manager, the connection hook and the Continuity Guard
ext == <<ws, hook, invoked, snap, now, offered, page, mic>>

\* what only the store's and the pause control's steps change
aux == <<store, pushed, uiPaused, ext>>

Active == {"recording", "paused"}

\* ---- Audio Capture Engine (useAudioRecorder) ------------------------------

NoPending == [s \in BOOLEAN |-> 0]

EngineInit ==
  [hasPermission |-> FALSE, probing |-> FALSE,
   isRecording |-> FALSE, isPaused |-> FALSE, error |-> "none", audioLevel |-> 0,
   rec |-> "null", sink |-> FALSE, chunks |-> 0, audioBlob |-> FALSE,
   final |-> FALSE, finalSink |-> FALSE, leaked |-> 0, pending |-> NoPending]

\* number of device streams acquired through startRecording and not released
HeldStreams(e) == (IF e.rec \in Active THEN 1 ELSE 0) + e.leaked

PendingTotal(e) == e.pending[TRUE] + e.pending[FALSE]

\* requestPermission, up to its await of getUserMedia({audio: true})
requestPermissionCall(e) ==
  [e EXCEPT !.error = "none", !.probing = TRUE]

\* requestPermission, after the probe settled; the probe's tracks are stopped at once
requestPermissionSettle(e, granted) ==
  IF granted
    THEN [e EXCEPT !.probing = FALSE, !.hasPermission = TRUE]
    ELSE [e EXCEPT !.probing = FALSE, !.hasPermission = FALSE, !.error = "denied"]

\* startRecording without its hasPermission guard
startRecordingUnguarded(e, perm, sink) ==
  [e EXCEPT !.error = "none", !.audioBlob = FALSE, !.isPaused = FALSE,
            !.chunks = 0, !.pending[sink] = @ + 1]

\* startRecording, up to its await of getUserMedia; perm is the hasPermission
\* the callback closed over, sink the isConnected its onDataAvailable closed over
startRecordingCall(e, perm, sink) ==
  LET r == [e EXCEPT !.error = "none", !.audioBlob = FALSE,
                     !.isPaused = FALSE, !.chunks = 0]
  IN IF ~perm
       THEN [r EXCEPT !.error = "not_granted"]
       ELSE [r EXCEPT !.pending[sink] = @ + 1]

\* startRecording, after getUserMedia settled: "ok" the stream was acquired and
\* the recorder started, "reject" getUserMedia rejected, "ctorfail" the stream
\* was acquired and new MediaRecorder threw
startRecordingSettle(e, sink, outcome) ==
  LET p == [e EXCEPT !.pending[sink] = @ - 1]
  IN CASE outcome = "reject"   -> [p EXCEPT !.error = "access"]
       [] outcome = "ctorfail" -> [p EXCEPT !.error = "access", !.leaked = @ + 1]
       [] OTHER ->
            [p EXCEPT !.rec = "recording", !.sink = sink, !.isRecording = TRUE,
                      !.leaked = IF e.rec \in Active THEN @ + 1 ELSE @]

\* a stopRecording that also clears the error message, as startRecording does
stopRecordingClearing(e) ==
  IF e.rec \in Active
    THEN [e EXCEPT !.rec = "inactive", !.final = TRUE, !.finalSink = e.sink,
                   !.sink = FALSE, !.isRecording = FALSE, !.isPaused = FALSE,
                   !.audioLevel = 0, !.error = "none"]
    ELSE [e EXCEPT !.isRecording = FALSE, !.isPaused = FALSE, !.audioLevel = 0,
                   !.error = "none"]

\* stopRecording: stops the referenced recorder and its tracks when it is not
\* inactive; MediaRecorder.stop() queues the final dataavailable and stop events;
\* the amplitude loop is cancelled and the flags and the level are reset
stopRecording(e) ==
  IF e.rec \in Active
    THEN [e EXCEPT !.rec = "inactive", !.final = TRUE, !.finalSink = e.sink,
                   !.sink = FALSE, !.isRecording = FALSE, !.isPaused = FALSE,
                   !.audioLevel = 0]
    ELSE [e EXCEPT !.isRecording = FALSE, !.isPaused = FALSE, !.audioLevel = 0]

pauseRecording(e) ==
  IF e.rec = "recording" THEN [e EXCEPT !.rec = "paused", !.isPaused = TRUE] ELSE e

resumeRecording(e) ==
  IF e.rec = "paused" THEN [e EXCEPT !.rec = "recording", !.isPaused = FALSE] ELSE e

\* the amplitude levels told apart: silence and anything above it
Levels == 0..1

\* one animation frame of monitorAudioLevel: the level is set from the analyser
monitorAudioLevel(e, level) == [e EXCEPT !.audioLevel = level]

\* mediaRecorder.ondataavailable for a blob of positive size
ondataavailable(e) == [e EXCEPT !.chunks = @ + 1]

\* the events queued by MediaRecorder.stop(): the final dataavailable (its blob
\* empty or not), then onstop, which assembles the chunks into audioBlob
finalEvents(e, nonEmpty) ==
  LET d == IF nonEmpty THEN ondataavailable(e) ELSE e
  IN [d EXCEPT !.audioBlob = IF d.chunks > 0 THEN TRUE ELSE @,
               !.final = FALSE, !.finalSink = FALSE]

\* The controller and the session page read hasPermission of the auto engine and
\* call its startRecording and stopRecording; its error, audioBlob and chunksRef
\* are read by nobody, and neither they nor the count of the streams it lost
\* are tracked by the controller's specification; its audioLevel is displayed
\* and steers nothing, and is not tracked there either
Unread(e) ==
  [e EXCEPT !.error = "none", !.audioBlob = FALSE, !.chunks = 0, !.leaked = 0,
            !.audioLevel = 0]

\* ---- Connection Manager: outbound audio commands ---------------------------

\* startAudioStream / endAudioStream / sendAudioChunk: emitted only while the
\* socket is connected, otherwise a logged no-op
wsEmit(conn, cmd) == IF conn THEN <<cmd>> ELSE <<>>

\* GroupKioskWebSocketService has no member reportWaveListenerIssue: calling it
\* raises a TypeError in the caller
reportWaveListenerIssueThrows == TRUE

\* the store's session.status, set once by the join page
StoreSessionStatus == "active"

\* ---- observation of the emitted stream -------------------------------------

\* open: a start-audio-stream was emitted and no end-audio-stream since;
\* ends: the end-audio-stream commands emitted since the last start-audio-stream
ObsInit == [open |-> FALSE, ends |-> "none"]

ObserveOne(o, c) ==
  CASE c = "start" -> [open |-> TRUE, ends |-> "none"]
    [] c = "end"   -> [open |-> FALSE,
                       ends |-> IF o.ends = "none" THEN "one" ELSE "many"]
    [] OTHER       -> o

RECURSIVE Observe(_, _)
Observe(o, calls) ==
  IF calls = <<>> THEN o ELSE Observe(ObserveOne(o, Head(calls)), Tail(calls))

Has(calls, c) == \E i \in 1..Len(calls) : calls[i] = c

Before(calls, a, b) ==
  \A j \in 1..Len(calls) : calls[j] = b => \E i \in 1..(j - 1) : calls[i] = a

\* ---- Auto-Capture Controller (useSessionAudioControl) ----------------------

\* An invocation of startCountdownThenRecord awaits the timer of count 3, 2 or 1,
\* or the getUserMedia of its startRecording call (auto.pending).  Invocations
\* awaiting the same thing differ only in whether countdownTimeoutRef names
\* their timer, so co counts them per count, and timerRef is the count of the
\* invocation whose pending timer the ref names ("none": null or already fired).
Counting == {"t3", "t2", "t1"}
NextCount(p) == IF p = "t3" THEN "t2" ELSE "t1"
CountOf(p) == IF p = "t3" THEN 3 ELSE IF p = "t2" THEN 2 ELSE 1

NoCycles == [p \in Counting |-> 0]

ControlInit ==
  [isAutoStarting |-> FALSE, countdown |-> 0,
   isAutoRecording |-> FALSE, autoStartError |-> "none"]

\* what a render of the session page reads from the hooks' state and the store
Snapshot ==
  [starting |-> cs.isAutoStarting, recording |-> cs.isAutoRecording,
   perm |-> auto.hasPermission, mperm |-> manual.hasPermission,
   ready |-> groupReady, conn |-> connected]

CountingCycles == co["t3"] + co["t2"] + co["t1"]
LiveCycles == CountingCycles + PendingTotal(auto)

\* clearCountdown: clearTimeout on the referenced timer (the invocation awaiting
\* it never resumes), the ref set to null, countdown and isAutoStarting reset
clearCountdownCo ==
  IF timerRef # "none" THEN [co EXCEPT ![timerRef] = @ - 1] ELSE co

clearCountdownCs(c) == [c EXCEPT !.countdown = 0, !.isAutoStarting = FALSE]

\* the calls of stopAutoRecording past its isAutoRecording guard: the engine is
\* stopped, then end-audio-stream is issued
stopAutoCalls == <<"stopRec">> \o wsEmit(connected, "end")

\* startCountdownThenRecord, up to its first await: isAutoStarting, countdown 3
\* and the first one-second timer
startCountdown ==
  /\ cs' = [cs EXCEPT !.isAutoStarting = TRUE, !.autoStartError = "none",
                      !.countdown = 3]
  /\ co' = [co EXCEPT !["t3"] = @ + 1]
  /\ timerRef' = "t3"

\* handleSessionStatusChange(status), with the closure of the last render
handleSessionStatusChange(status) ==
  /\ connected
  /\ IF status = "active" /\ view.ready /\ view.perm
       THEN IF ~view.starting /\ ~view.recording
              THEN /\ LiveCycles < MaxCycles
                   /\ startCountdown
                   /\ did' = <<>>
                   /\ UNCHANGED auto
              ELSE /\ did' = <<>>
                   /\ UNCHANGED <<cs, co, timerRef, auto>>
       ELSE IF status \in {"ended", "paused"}
              THEN /\ co' = clearCountdownCo
                   /\ timerRef' = "none"
                   /\ IF view.recording
                        THEN /\ auto' = Unread(stopRecording(auto))
                             /\ did' = stopAutoCalls
                             /\ cs' = [clearCountdownCs(cs) EXCEPT
                                         !.isAutoRecording = FALSE]
                        ELSE /\ cs' = clearCountdownCs(cs)
                             /\ did' = <<>>
                             /\ UNCHANGED auto
              ELSE /\ did' = <<>>
                   /\ UNCHANGED <<cs, co, timerRef, auto>>
  /\ obs' = Observe(obs, did')
  /\ UNCHANGED <<view, manual, connected, groupReady, permWatch, devListener,
                 inflight, aux>>

\* the server pushes session:status_changed
StatusPush(status) ==
  /\ handleSessionStatusChange(status)
  /\ UNCHANGED halted

\* the same push, recorded in the history variable
StatusPushObserved(status) ==
  /\ handleSessionStatusChange(status)
  /\ halted' = (status \in {"ended", "paused"})

\* the timer of an invocation at count p fires (named: it is the timer the ref
\* names): the next count and timer, or, after count 1, the final check of
\* hasPermission (the value autoRecorderRef.current holds), start-audio-stream
\* and startRecording
countdownTimer(p, named, hasPermission) ==
  /\ co[p] > 0
  /\ IF named THEN timerRef = p ELSE (timerRef # p \/ co[p] > 1)
  /\ IF p # "t1"
       THEN /\ cs' = [cs EXCEPT !.countdown = CountOf(NextCount(p))]
            /\ co' = [co EXCEPT ![p] = @ - 1, ![NextCount(p)] = @ + 1]
            /\ timerRef' = NextCount(p)
            /\ did' = <<>>
            /\ UNCHANGED auto
       ELSE /\ co' = [co EXCEPT ![p] = @ - 1]
            /\ timerRef' = IF named THEN "none" ELSE timerRef
            /\ IF ~hasPermission
                 THEN /\ cs' = [cs EXCEPT !.countdown = 0,
                                          !.isAutoStarting = FALSE,
                                          !.autoStartError = "start_failed"]
                      /\ did' = <<>>
                      /\ UNCHANGED auto
                 ELSE /\ cs' = [cs EXCEPT !.countdown = 0]
                      /\ did' = wsEmit(connected, "start") \o <<"startRec">>
                      /\ auto' = Unread(startRecordingCall(auto, view.perm,
                                                           view.conn))
  /\ obs' = Observe(obs, did')
  /\ UNCHANGED <<view, manual, connected, groupReady, permWatch, devListener,
                 inflight, halted, aux>>

\* the final permission check left out
TimerFireUnchecked(p, named) == countdownTimer(p, named, TRUE)

TimerFire(p, named) == countdownTimer(p, named, view.perm)

\* bounds on the environment: a stopped recorder's queued final events fire
\* before another acquisition completes; at most MaxLeak streams are lost
SettleAllowed(e, outcome) ==
  /\ outcome = "ok" => ~e.final
  /\ (outcome = "ctorfail" \/ (outcome = "ok" /\ e.rec \in Active))
       => e.leaked < MaxLeak

\* the getUserMedia awaited by an invocation settles; startRecording never
\* rejects, so the invocation continues to isAutoRecording in every outcome
AcquireSettle(sink, outcome) ==
  /\ auto.pending[sink] > 0
  /\ SettleAllowed(auto, outcome)
  /\ auto' = Unread(startRecordingSettle(auto, sink, outcome))
  /\ cs' = [cs EXCEPT !.isAutoRecording = TRUE, !.isAutoStarting = FALSE]
  /\ did' = <<>>
  /\ UNCHANGED <<view, co, timerRef, manual, connected, groupReady, permWatch,
                 devListener, inflight, obs, halted, aux>>

\* handleStop of the stop control: stopAutoRecording, then isPaused reset
StopControl ==
  /\ view.recording
  /\ auto' = Unread(stopRecording(auto))
  /\ did' = stopAutoCalls
  /\ obs' = Observe(obs, did')
  /\ cs' = [cs EXCEPT !.isAutoRecording = FALSE]
  /\ uiPaused' = FALSE
  /\ UNCHANGED <<view, co, timerRef, manual, connected, groupReady, permWatch,
                 devListener, inflight, halted, store, pushed, ext>>

\* handlePause of the pause control, shown while the page renders isAutoRecording:
\* it sets the page's isPaused and calls nothing
handlePause ==
  /\ view.recording
  /\ ~uiPaused
  /\ uiPaused' = TRUE
  /\ did' = <<>>
  /\ UNCHANGED <<cs, view, co, timerRef, auto, manual, connected, groupReady,
                 permWatch, devListener, inflight, halted, store, pushed, obs, ext>>

\* handleResume of the pause control
handleResume ==
  /\ view.recording
  /\ uiPaused
  /\ uiPaused' = FALSE
  /\ did' = <<>>
  /\ UNCHANGED <<cs, view, co, timerRef, auto, manual, connected, groupReady,
                 permWatch, devListener, inflight, halted, store, pushed, obs, ext>>

\* handleBeforeUnload of the controller; the user may still cancel the unload
BeforeUnload ==
  /\ view.recording
  /\ auto' = Unread(stopRecording(auto))
  /\ did' = stopAutoCalls
  /\ obs' = Observe(obs, did')
  /\ UNCHANGED <<cs, view, co, timerRef, manual, connected, groupReady,
                 permWatch, devListener, inflight, halted, aux>>

\* a watcher handler: it was created in a render with isAutoRecording true; the
\* state update is queued, then the issue report is attempted, then the stop
watcherFires(reason) ==
  /\ cs' = [cs EXCEPT !.autoStartError = reason, !.isAutoRecording = FALSE]
  /\ IF reportWaveListenerIssueThrows
       THEN /\ did' = <<>>
            /\ UNCHANGED auto
       ELSE /\ auto' = Unread(stopRecording(auto))
            /\ did' = stopAutoCalls
  /\ obs' = Observe(obs, did')
  /\ UNCHANGED <<view, co, timerRef, manual, connected, groupReady, permWatch,
                 devListener, inflight, halted, aux>>

\* handlePermissionChange with permissionWatcher.state = 'denied'
PermissionDenied ==
  /\ permWatch
  /\ watcherFires("revoked")

\* the devicechange listener, enumerateDevices reporting no audio input
DeviceLost ==
  /\ devListener
  /\ watcherFires("device")

ClearAutoStartError ==
  /\ cs.autoStartError # "none"
  /\ cs' = [cs EXCEPT !.autoStartError = "none"]
  /\ did' = <<>>
  /\ UNCHANGED <<view, co, timerRef, auto, manual, connected, groupReady,
                 permWatch, devListener, inflight, obs, halted, aux>>

\* a re-render of the session page: the handlers now close over the current
\* values; when isAutoRecording changed, the unmount-cleanup effect's previous
\* cleanup runs (clearCountdown and, if that render saw isAutoRecording, its
\* stopAutoRecording), and the monitoring effect is torn down and set up again
\* (its permission listener is never removed)
Render ==
  /\ Snapshot # view
  /\ view' = Snapshot
  /\ IF view.recording # cs.isAutoRecording
       THEN /\ co' = clearCountdownCo
            /\ timerRef' = "none"
            /\ IF view.recording
                 THEN /\ auto' = Unread(stopRecording(auto))
                      /\ did' = stopAutoCalls
                      /\ cs' = [clearCountdownCs(cs) EXCEPT
                                  !.isAutoRecording = FALSE]
                 ELSE /\ cs' = clearCountdownCs(cs)
                      /\ did' = <<>>
                      /\ UNCHANGED auto
            /\ permWatch' = (permWatch \/ cs.isAutoRecording)
            /\ devListener' = cs.isAutoRecording
       ELSE /\ did' = <<>>
            /\ UNCHANGED <<cs, co, timerRef, auto, permWatch, devListener>>
  /\ obs' = Observe(obs, did')
  /\ UNCHANGED <<manual, connected, groupReady, inflight, halted, aux>>

\* ---- store and transport events ---------------------------------------------

\* onGroupStatusChanged / the leader toggle: setGroupReadiness(isReady)
SetGroupReadiness(isReady) ==
  /\ groupReady' = isReady
  /\ did' = <<>>
  /\ UNCHANGED <<cs, view, co, timerRef, auto, manual, connected, permWatch,
                 devListener, inflight, obs, halted, aux>>

\* sendGroupAudio resumes after blob.arrayBuffer(): sendAudioChunk
ChunkConverted ==
  /\ inflight > 0
  /\ inflight' = inflight - 1
  /\ did' = wsEmit(connected, "chunk")
  /\ obs' = Observe(obs, did')
  /\ UNCHANGED <<cs, view, co, timerRef, auto, manual, connected, groupReady,
                 permWatch, devListener, halted, aux>>

\* ---- events of the auto engine ----------------------------------------------

\* requestPermission on the auto engine.  The pending probe changes nothing the
\* controller reads, so the call and its settlement are one step here.
AutoRequestPermission(granted) ==
  /\ auto' = Unread(requestPermissionSettle(requestPermissionCall(auto), granted))
  /\ did' = <<>>
  /\ UNCHANGED <<cs, view, co, timerRef, manual, connected, groupReady,
                 permWatch, devListener, inflight, obs, halted, aux>>

\* the recorder delivers a time slice; the sink forwards it to sendGroupAudio
\* when the isConnected it closed over is true
AutoData ==
  /\ auto.rec = "recording"
  /\ auto.sink
  /\ inflight < MaxInflight
  /\ auto' = Unread(ondataavailable(auto))
  /\ inflight' = inflight + 1
  /\ did' = <<>>
  /\ UNCHANGED <<cs, view, co, timerRef, manual, connected, groupReady,
                 permWatch, devListener, obs, halted, aux>>

\* the final dataavailable and stop events of the recorder stopRecording stopped
AutoFinal(nonEmpty) ==
  /\ auto.final
  /\ (nonEmpty /\ auto.finalSink) => inflight < MaxInflight
  /\ auto' = Unread(finalEvents(auto, nonEmpty))
  /\ inflight' = IF nonEmpty /\ auto.finalSink THEN inflight + 1 ELSE inflight
  /\ did' = <<>>
  /\ UNCHANGED <<cs, view, co, timerRef, manual, connected, groupReady,
                 permWatch, devListener, obs, halted, aux>>

\* ---- Session State Store (student-store) -------------------------------------

\* The controller's specifications track what the controller reads of the store
\* (groupReady, connected); the store's record itself is tracked by SpecStore.
Groups == {"g1", "g2"}
Names == {"A", "B"}
Statuses == {"active", "paused", "ended"}
Tri == {"undef", "true", "false"}

NoSession == [some |-> FALSE, id |-> "none", status |-> "none"]
NoGroup ==
  [some |-> FALSE, id |-> "none", name |-> "none", members |-> "none",
   isLeader |-> "undef", isReady |-> "undef"]

\* the store's initial state, which logout restores
StoreInit ==
  [isAuthenticated |-> FALSE, token |-> "null", student |-> "null",
   session |-> NoSession, group |-> NoGroup, isRecording |-> FALSE,
   isMuted |-> FALSE, audioLevel |-> 0, isConnected |-> FALSE]

setAuth(s, token, student) ==
  [s EXCEPT !.isAuthenticated = TRUE, !.token = token, !.student = student]

setSession(s, session) == [s EXCEPT !.session = session]

setGroup(s, group) == [s EXCEPT !.group = group]

\* a setGroupReadiness that rebuilds the group from its id and name
setGroupReadinessRebuilt(s, isReady) ==
  [s EXCEPT !.group = IF s.group.some
                        THEN [some |-> TRUE, id |-> s.group.id, name |-> s.group.name,
                              members |-> "empty", isLeader |-> "undef",
                              isReady |-> isReady]
                        ELSE NoGroup]

setGroupReadiness(s, isReady) ==
  [s EXCEPT !.group = IF s.group.some
                        THEN [s.group EXCEPT !.isReady = isReady]
                        ELSE NoGroup]

setRecording(s, isRecording) == [s EXCEPT !.isRecording = isRecording]

setConnected(s, isConnected) == [s EXCEPT !.isConnected = isConnected]

setMuted(s, isMuted) == [s EXCEPT !.isMuted = isMuted]

setAudioLevel(s, audioLevel) == [s EXCEPT !.audioLevel = audioLevel]

\* a logout that resets what the session page shows and keeps the connection flag
logoutKeepingConnection(s) == [StoreInit EXCEPT !.isConnected = s.isConnected]

logout(s) == StoreInit

\* the group object the join page and onGroupJoined build: id, name and an empty
\* member list, isLeader and isReady left undefined
JoinedGroup(id, name) ==
  [some |-> TRUE, id |-> id, name |-> name, members |-> "empty",
   isLeader |-> "undef", isReady |-> "undef"]

\* the store as the join page leaves it, with the transport connected
StoreJoined ==
  setConnected(
    setGroup(
      setSession(setAuth(StoreInit, "tok", "s1"),
                 [some |-> TRUE, id |-> "sess", status |-> StoreSessionStatus]),
      JoinedGroup("g1", "A")),
    TRUE)

\* group?.isReady as a reader tests it
IsReady(s) == s.group.some /\ s.group.isReady = "true"

TriOf(b) == IF b THEN "true" ELSE "false"

\* the variables no step of the store changes
app == <<cs, view, co, timerRef, auto, manual, permWatch, devListener, inflight,
         halted, uiPaused, obs, ext>>

\* a step of the store: the mirrors the controller reads follow it
StoreStep(s) ==
  /\ store' = s
  /\ groupReady' = IsReady(s)
  /\ connected' = s.isConnected
  /\ did' = <<>>
  /\ UNCHANGED app

\* the group object of the join page that compares the group's leaderId with the
\* student: isLeader set, isReady false
AssignedGroup(id, name, isLeader) ==
  [JoinedGroup(id, name) EXCEPT !.isLeader = TriOf(isLeader), !.isReady = "false"]

\* a join page: setAuth, setSession, setGroup when the response has a group; one
\* page stores id and name only (leader "undef"), the other the leader flag too
Join(id, name, leader) ==
  /\ ~store.isAuthenticated
  /\ StoreStep(setGroup(
                 setSession(setAuth(store, "tok", "s1"),
                            [some |-> TRUE, id |-> "sess",
                             status |-> StoreSessionStatus]),
                 IF leader = "undef" THEN JoinedGroup(id, name)
                                     ELSE AssignedGroup(id, name, leader = "true")))
  /\ UNCHANGED pushed

\* isConnected(): this.socket?.connected || false
isConnected(w) == w.socket # 0 /\ w.socks[w.socket].state = "connected"

\* an emitter that does not test the connection
emitUnguarded(w, c) == <<c>>

\* an emitter: it emits when this.socket is connected and returns otherwise
emit(w, c) == IF isConnected(w) THEN <<c>> ELSE <<>>

\* the group:leader_ready event with its ready flag; its session and group ids
\* are those of the store the flag was computed from
MarkReadyOf == [r \in BOOLEAN |-> IF r THEN "leader_ready true" ELSE "leader_ready false"]

\* what the leader control's toggle leaves alone
apart == <<cs, view, co, timerRef, auto, manual, permWatch, devListener, inflight,
           halted, uiPaused, obs, ws, hook, invoked, snap, now, offered, page, pushed>>

\* LeaderReadyControl.handleToggleReady, rendered for the group's leader. With
\* the new state true and hasPermission false it awaits requestPermission and
\* then tests the hasPermission it closed over, which is still false: it
\* returns. Otherwise markLeaderReady emits when the socket is connected and
\* the store is updated optimistically
handleToggleReady ==
  /\ store.group.some /\ store.group.isLeader = "true"
  /\ LET r == store.group.isReady # "true"
     IN IF ~store.session.some \/ store.student = "null"
          THEN store' = store /\ mic' = mic /\ did' = <<>>
          ELSE IF r /\ ~mic
            THEN /\ \E granted \in BOOLEAN : mic' = granted
                 /\ store' = store
                 /\ did' = <<>>
            ELSE /\ mic' = mic
                 /\ store' = setGroupReadiness(store, TriOf(r))
                 /\ did' = emit(ws, MarkReadyOf[r])
  /\ groupReady' = IsReady(store')
  /\ connected' = store'.isConnected
  /\ UNCHANGED apart

\* the leader control's requestPermission: its mount effect, or the Grant
\* Permission button
LeaderRequestPermission(granted) ==
  /\ store.group.some /\ store.group.isLeader = "true"
  /\ mic' = granted
  /\ did' = <<>>
  /\ UNCHANGED <<apart, store, groupReady, connected>>

\* useWebSocket: onConnect / onDisconnect
Connected(up) ==
  /\ store.isAuthenticated
  /\ StoreStep(setConnected(store, up))
  /\ UNCHANGED pushed

\* useWebSocket: onGroupJoined(data)
onGroupJoined(id, name) ==
  /\ store.isConnected
  /\ StoreStep(setGroup(store, JoinedGroup(id, name)))
  /\ UNCHANGED pushed

\* useWebSocket: onGroupStatusChanged(data); data.groupId is not read
onGroupStatusChanged(groupId, status) ==
  /\ store.isConnected
  /\ StoreStep(setGroupReadiness(store, TriOf(status \in {"ready", "recording"})))
  /\ UNCHANGED pushed

\* useWebSocket: onSessionStatusChanged(data) forwards the status to the page's
\* handler and leaves the store alone
onSessionStatusChanged(status) ==
  /\ store.isConnected
  /\ pushed' = status
  /\ StoreStep(store)

\* setGroupReadiness called on the store as it is, with or without a group
StoreSetGroupReadiness(b) ==
  /\ StoreStep(setGroupReadiness(store, TriOf(b)))
  /\ UNCHANGED pushed

StoreSetRecording(b) ==
  /\ store.isAuthenticated
  /\ StoreStep(setRecording(store, b))
  /\ UNCHANGED pushed

StoreSetMuted(b) ==
  /\ store.isAuthenticated
  /\ store.isMuted # b
  /\ StoreStep(setMuted(store, b))
  /\ UNCHANGED pushed

StoreSetAudioLevel(level) ==
  /\ store.isAuthenticated
  /\ store.audioLevel # level
  /\ StoreStep(setAudioLevel(store, level))
  /\ UNCHANGED pushed

\* handleLeaveSession: logout
Logout ==
  /\ store.isAuthenticated
  /\ StoreStep(logout(store))
  /\ UNCHANGED pushed

NextStore ==
  \/ \E id \in Groups, name \in Names, leader \in Tri : Join(id, name, leader)
  \/ handleToggleReady
  \/ \E up \in BOOLEAN : Connected(up)
  \/ \E id \in Groups, name \in Names : onGroupJoined(id, name)
  \/ \E groupId \in Groups, status \in {"waiting", "ready", "recording", "error"} :
       onGroupStatusChanged(groupId, status)
  \/ \E status \in Statuses : onSessionStatusChanged(status)
  \/ \E b \in BOOLEAN : StoreSetGroupReadiness(b)
  \/ \E b \in BOOLEAN : StoreSetRecording(b)
  \/ \E b \in BOOLEAN : StoreSetMuted(b)
  \/ \E level \in Levels : StoreSetAudioLevel(level)
  \/ Logout

\* ---- Connection Manager (GroupKioskWebSocketService) --------------------------

MaxFailures == 7   \* connect failures counted by reconnectAttempts
MaxSockets  == 2   \* transports io() has created and not yet closed

Sessions == {"sess", "sess2"}
SockIds == 1..MaxSockets

maxReconnectAttempts == 5
initialReconnectDelay == 1000
reconnectionDelayMax == 10000

Commands ==
  {"joinSession", "leaveSession", "joinGroupSession", "leaveGroupSession",
   "updateGroupStatus", "markLeaderReady", "startAudioStream", "sendAudioChunk",
   "endAudioStream"}

\* a transport: "connecting" covers the first attempt and the reconnection
\* attempts the library makes by itself; tries counts those it has scheduled
ClosedSock == [state |-> "closed", tries |-> 0]

\* the service as constructed: no socket, no callbacks
ServiceInit ==
  [socket |-> 0, events |-> "none", reconnectAttempts |-> 0,
   reconnectDelay |-> initialReconnectDelay, socks |-> [k \in SockIds |-> ClosedSock]]

\* a transport that is open or that the library is still trying to open
Live(w, k) == w.socks[k].state \in {"connecting", "connected"}

LiveSockets(w) == Cardinality({k \in SockIds : Live(w, k)})

\* connect(token, events), io() returning transport k
connect(w, events, k) ==
  IF isConnected(w)
    THEN w
    ELSE [w EXCEPT !.events = events, !.socket = k,
                   !.socks[k] = [state |-> "connecting", tries |-> 0]]

\* the 'connect' listener
connectListener(w, k) ==
  [w EXCEPT !.socks[k] = [state |-> "connected", tries |-> 0],
            !.reconnectAttempts = 0, !.reconnectDelay = initialReconnectDelay]

\* what the library does with a transport whose attempt failed: another attempt
\* while fewer than reconnectionAttempts were scheduled, else it gives up
attemptFailed(sock) ==
  IF sock.tries < maxReconnectAttempts
    THEN [sock EXCEPT !.tries = @ + 1]
    ELSE ClosedSock

\* a 'connect_error' listener that keeps doubling the delay
connectErrorListenerUncapped(w, k) ==
  LET n == w.reconnectAttempts + 1
  IN [w EXCEPT !.socks[k] = attemptFailed(@), !.reconnectAttempts = n,
               !.reconnectDelay = IF n >= maxReconnectAttempts THEN @ ELSE @ * 2]

\* the 'connect_error' listener
connectErrorListener(w, k) ==
  LET n == w.reconnectAttempts + 1
      doubled == w.reconnectDelay * 2
  IN [w EXCEPT !.socks[k] = attemptFailed(@), !.reconnectAttempts = n,
               !.reconnectDelay =
                 IF n >= maxReconnectAttempts THEN @
                 ELSE IF doubled < reconnectionDelayMax THEN doubled
                                                        ELSE reconnectionDelayMax]

\* the 'connect_error' listener calls events.onError
terminalError(w) == w.reconnectAttempts >= maxReconnectAttempts

\* disconnect(): socket.disconnect(), socket = null
disconnect(w) ==
  IF w.socket = 0 THEN w
  ELSE [w EXCEPT !.socks[w.socket] = ClosedSock, !.socket = 0]

\* ---- connection hook (useWebSocket) -------------------------------------------

JoinOf == [id \in Sessions |-> IF id = "sess" THEN "join sess" ELSE "join sess2"]
LeaveOf == [id \in Sessions |-> IF id = "sess" THEN "leave sess" ELSE "leave sess2"]

Count(calls, c) == Cardinality({i \in 1..Len(calls) : calls[i] = c})

\* an onConnect that marks the store connected and joins nothing
onConnectSilent(w, id) == <<"onConnect">>

\* onConnect of the callbacks that closed over session id: setConnected(true),
\* then joinSession(id)
onConnect(w, id) == <<"onConnect">> \o emit(w, JoinOf[id])

\* a cleanup that disconnects before it leaves the session
effectCleanupDisconnectFirst(w, id) ==
  <<"disconnect">> \o (IF isConnected(w) THEN <<"onDisconnect">> ELSE <<>>)
    \o emit(disconnect(w), LeaveOf[id])

\* the effect's cleanup: leaveSession(id), disconnect() (whose socket.disconnect()
\* tells the 'disconnect' listener when the socket was connected), setConnected(false)
effectCleanup(w, id) ==
  emit(w, LeaveOf[id]) \o <<"disconnect">>
    \o (IF isConnected(w) THEN <<"onDisconnect">> ELSE <<>>)

HookInit == [active |-> FALSE, session |-> "none"]

\* the session page mounted, its transport connected
HookJoined == [active |-> TRUE, session |-> "sess"]

ServiceJoined == connectListener(connect(ServiceInit, "sess", 1), 1)

\* what the steps of the Connection Manager and of the hook leave alone
rest == <<cs, view, co, timerRef, auto, manual, permWatch, devListener, inflight,
          halted, uiPaused, obs, pushed, snap, now, offered, page, mic>>

\* a step of the Connection Manager or the hook: the service, the store's
\* isConnected and its mirror, the calls made
NetStepOn(s, w, isConn, calls) ==
  /\ ws' = w
  /\ store' = setConnected(s, isConn)
  /\ connected' = isConn
  /\ did' = calls
  /\ UNCHANGED <<groupReady, rest>>

NetStep(w, isConn, calls) == NetStepOn(store, w, isConn, calls)

\* 'connect' on transport k
SockOpen(k) ==
  /\ ws.socks[k].state = "connecting"
  /\ LET w == connectListener(ws, k)
     IN NetStep(w, TRUE, onConnect(w, ws.events))
  /\ invoked' = "none"
  /\ UNCHANGED hook

\* 'connect_error' on transport k
SockFail(k) ==
  /\ ws.socks[k].state = "connecting"
  /\ ws.reconnectAttempts < MaxFailures
  /\ LET w == connectErrorListener(ws, k)
     IN IF terminalError(w)
          THEN NetStep(w, FALSE, <<"onError">>)
          ELSE NetStep(w, store.isConnected, <<>>)
  /\ invoked' = "none"
  /\ UNCHANGED hook

\* 'disconnect' on transport k: the transport closed and the library schedules
\* its first reconnection attempt, or the server disconnected the socket and it
\* stays closed
SockDrop(k, reconnects) ==
  /\ ws.socks[k].state = "connected"
  /\ NetStep([ws EXCEPT !.socks[k] = IF reconnects
                                       THEN [state |-> "connecting", tries |-> 1]
                                       ELSE ClosedSock],
             FALSE, <<"onDisconnect">>)
  /\ invoked' = "none"
  /\ UNCHANGED hook

\* 'error' on transport k, an event the server sends over the open transport
SockError(k) ==
  /\ ws.socks[k].state = "connected"
  /\ NetStep(ws, FALSE, <<"onError">>)
  /\ invoked' = "none"
  /\ UNCHANGED hook

TransportEvents ==
  \E k \in SockIds :
    \/ SockOpen(k)
    \/ SockFail(k)
    \/ \E reconnects \in BOOLEAN : SockDrop(k, reconnects)
    \/ SockError(k)

\* a caller invokes connect(token, events) with callbacks closed over session id
ServiceConnect(id) ==
  /\ \E k \in SockIds :
       /\ ws.socks[k].state = "closed"
       /\ \A j \in SockIds : j < k => ws.socks[j].state # "closed"
       /\ NetStep(connect(ws, id, k), store.isConnected, <<"connect">>)
  /\ invoked' = "none"
  /\ UNCHANGED hook

\* a caller invokes disconnect()
ServiceDisconnect ==
  /\ NetStep(disconnect(ws), IF isConnected(ws) THEN FALSE ELSE store.isConnected,
             <<"disconnect">> \o (IF isConnected(ws) THEN <<"onDisconnect">> ELSE <<>>))
  /\ invoked' = "none"
  /\ UNCHANGED hook

\* a caller invokes an outbound command
Command(c) ==
  /\ NetStep(ws, store.isConnected, emit(ws, c))
  /\ invoked' = c
  /\ UNCHANGED hook

\* the Connection Manager under any caller
NextManager ==
  \/ TransportEvents
  \/ \E id \in Sessions : ServiceConnect(id)
  \/ ServiceDisconnect
  \/ \E c \in Commands : Command(c)

\* the effect's set-up with session id, after the calls of its cleanup if it
\* had one: connect(token, callbacks)
HookSetup(s, w, id, calls, isConn) ==
  \E k \in SockIds :
    /\ w.socks[k].state = "closed"
    /\ \A j \in SockIds : j < k => w.socks[j].state # "closed"
    /\ NetStepOn(s, connect(w, id, k), isConn, calls \o <<"connect">>)

\* the hook mounts with a token and a session in the store
HookMount ==
  /\ ~hook.active
  /\ store.isAuthenticated /\ store.session.some
  /\ HookSetup(store, ws, store.session.id, <<>>, store.isConnected)
  /\ hook' = [active |-> TRUE, session |-> store.session.id]
  /\ invoked' = "none"

\* the hook unmounts: the effect's cleanup
HookUnmount ==
  /\ hook.active
  /\ NetStep(disconnect(ws), FALSE, effectCleanup(ws, hook.session))
  /\ hook' = HookInit
  /\ invoked' = "none"

\* the page renders again: options is a new object, the effect is cleaned up
\* and set up again
HookRerun ==
  /\ hook.active
  /\ HookSetup(store, disconnect(ws), hook.session,
               effectCleanup(ws, hook.session), FALSE)
  /\ invoked' = "none"
  /\ UNCHANGED hook

\* setSession with another session while the hook is mounted: the effect is
\* cleaned up with the session it closed over and set up with the new one
SessionChange(id) ==
  /\ hook.active
  /\ id # hook.session
  /\ HookSetup(setSession(store, [some |-> TRUE, id |-> id,
                                  status |-> StoreSessionStatus]),
               disconnect(ws), id, effectCleanup(ws, hook.session), FALSE)
  /\ hook' = [hook EXCEPT !.session = id]
  /\ invoked' = "none"

\* the hook, the service and the store under the session page
NextHook ==
  \/ TransportEvents
  \/ HookMount
  \/ HookUnmount
  \/ HookRerun
  \/ \E id \in Sessions : SessionChange(id)

\* the hook and its caller: the effect's steps and the outbound commands the
\* hook hands out, invoked whether or not the transport is open
NextPage ==
  \/ NextHook
  \/ \E c \in Commands : Command(c)

\* the leader of a group on the session page: the leader control, the
\* readiness pushes, the transport's events, leaving and joining again
NextLeader ==
  \/ handleToggleReady
  \/ \E granted \in BOOLEAN : LeaderRequestPermission(granted)
  \/ TransportEvents
  \/ \E groupId \in Groups, status \in {"waiting", "ready", "recording", "error"} :
       onGroupStatusChanged(groupId, status)
  \/ Logout
  \/ \E id \in Groups, name \in Names, leader \in Tri : Join(id, name, leader)

\* ---- Session Continuity Guard (useSessionPersistence) -------------------------

MaxTime == 5   \* how far Date.now() advances, in units of ten minutes

\* SESSION_TIMEOUT = 30 * 60 * 1000 ms, in units of ten minutes
SESSION_TIMEOUT == 3

Terminal == {"ended", "completed"}

\* localStorage without the item STORAGE_KEY
NoSnapshot ==
  [some |-> FALSE, sessionId |-> "none", timestamp |-> 0, lastActivity |-> 0,
   status |-> "none"]

\* session?.id, group?.id and student?.id are all there
Identified(s) == s.session.some /\ s.group.some /\ s.student # "null"

\* a persistSessionState that writes whatever the store holds
persistSessionStateUnguarded(sn, s, t) ==
  [some |-> TRUE, sessionId |-> s.session.id, timestamp |-> t, lastActivity |-> t,
   status |-> IF s.session.status = "active" THEN "active" ELSE "pending"]

\* persistSessionState at time t
persistSessionState(sn, s, t) ==
  IF ~Identified(s) THEN sn
  ELSE [some |-> TRUE, sessionId |-> s.session.id, timestamp |-> t,
        lastActivity |-> t,
        status |-> IF s.session.status = "active" THEN "active" ELSE "pending"]

\* the beforeunload handler at time t
handleBeforeUnload(sn, s, t) ==
  IF ~Identified(s) THEN sn
  ELSE [some |-> TRUE, sessionId |-> s.session.id, timestamp |-> t,
        lastActivity |-> t, status |-> "rejoining"]

\* loadPersistedSession at time t: the storage it leaves
loadPersistedSession(sn, t) ==
  IF sn.some /\ t - sn.timestamp > SESSION_TIMEOUT THEN NoSnapshot ELSE sn

\* loadPersistedSession at time t: what it returns
loadPersistedResult(sn, t) ==
  IF sn.some /\ ~(t - sn.timestamp > SESSION_TIMEOUT) THEN "snapshot" ELSE "null"

clearPersistedSession(sn) == NoSnapshot

\* updateActivity at time t
updateActivity(sn, t) == IF sn.some THEN [sn EXCEPT !.lastActivity = t] ELSE sn

\* the clean-up effect, run for the store's session.status
cleanUpEffect(sn, s) ==
  IF s.session.some /\ s.session.status \in Terminal
    THEN clearPersistedSession(sn)
    ELSE sn

\* what the steps of the guard leave alone
held == <<cs, view, co, timerRef, auto, manual, permWatch, devListener, inflight,
          halted, uiPaused, obs, ws, hook, invoked, page, mic>>

\* no session page is open
NoPage == [route |-> "none", timer |-> FALSE, modal |-> FALSE, stale |-> NoSnapshot]

\* the session page of the joined session, its mount check done
PageJoined == [NoPage EXCEPT !.route = "sess"]

\* what the steps of the page's mount check leave alone
kept == <<cs, view, co, timerRef, auto, manual, permWatch, devListener, inflight,
          halted, uiPaused, obs, ws, hook, invoked, pushed, now, mic>>

\* ten minutes pass
Tick ==
  /\ now < MaxTime
  /\ now' = now + 1
  /\ did' = <<>>
  /\ UNCHANGED <<held, store, connected, groupReady, pushed, snap, offered>>

\* the store's isConnected changes: the persist effect runs when the session,
\* the group, the student and the connection are there
GuardConnection(up) ==
  /\ store.isAuthenticated
  /\ store.isConnected # up
  /\ store' = setConnected(store, up)
  /\ connected' = up
  /\ snap' = IF up THEN persistSessionState(snap, store', now) ELSE snap
  /\ did' = <<>>
  /\ UNCHANGED <<held, groupReady, pushed, now, offered>>

\* trackActivity: the five-second interval or a user interaction
GuardActivity ==
  /\ Identified(store)
  /\ snap.some /\ snap.lastActivity # now
  /\ snap' = updateActivity(snap, now)
  /\ did' = <<>>
  /\ UNCHANGED <<held, store, connected, groupReady, pushed, now, offered>>

\* visibilitychange: hidden persists the state, visible updates the activity
VisibilityChange(hidden) ==
  /\ snap' = IF hidden THEN persistSessionState(snap, store, now)
                       ELSE updateActivity(snap, now)
  /\ did' = <<IF hidden THEN "hidden" ELSE "visible">>
  /\ UNCHANGED <<held, store, connected, groupReady, pushed, now, offered>>

\* beforeunload while the session, the group and the student are there
GuardUnload ==
  /\ Identified(store)
  /\ snap' = handleBeforeUnload(snap, store, now)
  /\ snap' # snap
  /\ did' = <<>>
  /\ UNCHANGED <<held, store, connected, groupReady, pushed, now, offered>>

\* checkForRejoinableSession calls loadPersistedSession
LoadPersisted ==
  /\ snap' = loadPersistedSession(snap, now)
  /\ offered' = loadPersistedResult(snap, now)
  /\ did' = <<>>
  /\ UNCHANGED <<held, store, connected, groupReady, pushed, now>>

\* a session-status push handled by the hook and the page: the store is left
\* as it is, and the clean-up effect sees the store's session.status
GuardPush(status) ==
  /\ store.isConnected
  /\ pushed' = status
  /\ snap' = cleanUpEffect(snap, store)
  /\ did' = <<>>
  /\ UNCHANGED <<held, store, connected, groupReady, now, offered>>

\* handleLeaveSession: clearPersistedSession, logout, router.push('/')
GuardLeave ==
  /\ store.isAuthenticated
  /\ snap' = clearPersistedSession(snap)
  /\ store' = logout(store)
  /\ connected' = FALSE
  /\ groupReady' = FALSE
  /\ page' = NoPage
  /\ did' = <<>>
  /\ UNCHANGED <<kept, offered>>

NextGuard ==
  \/ Tick
  \/ \E up \in BOOLEAN : GuardConnection(up)
  \/ GuardActivity
  \/ \E hidden \in BOOLEAN : VisibilityChange(hidden)
  \/ GuardUnload
  \/ LoadPersisted
  \/ \E status \in Statuses \cup Terminal : GuardPush(status)
  \/ GuardLeave

\* ---- the session page's mount check (SG-ST-14) -------------------------------

\* what zustand's persist keeps of the store (partialize): the group and the
\* connection flag are not kept
partialize(s) ==
  [StoreInit EXCEPT !.isAuthenticated = s.isAuthenticated, !.token = s.token,
                    !.student = s.student, !.session = s.session]

\* the tab of the session page is closed: the beforeunload handler writes the
\* snapshot, the store is what persist kept of it
PageClose ==
  /\ page.route # "none"
  /\ snap' = handleBeforeUnload(snap, store, now)
  /\ store' = partialize(store)
  /\ connected' = FALSE
  /\ groupReady' = FALSE
  /\ page' = NoPage
  /\ did' = <<>>
  /\ UNCHANGED <<kept, offered>>

\* the student joins session id and its session page mounts: the join page's
\* setAuth, setSession, setGroup; the mount effect arms the check's timer; the
\* persist effect finds isConnected false. stale is history: the snapshot of
\* another session, not expired, that storage held at this mount
PageOpen(id) ==
  /\ page.route = "none"
  /\ store' = setGroup(setSession(setAuth(partialize(store), "tok", "s1"),
                                  [some |-> TRUE, id |-> id,
                                   status |-> StoreSessionStatus]),
                       JoinedGroup("g1", "A"))
  /\ connected' = FALSE
  /\ groupReady' = IsReady(store')
  /\ page' = [route |-> id, timer |-> TRUE, modal |-> FALSE,
              stale |-> IF loadPersistedResult(snap, now) = "snapshot"
                           /\ snap.sessionId # id
                          THEN snap ELSE NoSnapshot]
  /\ did' = <<>>
  /\ UNCHANGED <<kept, snap, offered>>

\* checkForRejoinableSession: the snapshot loadPersistedSession returned, unless
\* it is of the store's session
checkForRejoinableSession(sn, s, t) ==
  /\ loadPersistedResult(sn, t) = "snapshot"
  /\ ~(s.session.some /\ s.session.id = sn.sessionId)

\* checkRejoinable, one second after the mount
MountCheck ==
  /\ page.timer
  /\ snap' = loadPersistedSession(snap, now)
  /\ offered' = loadPersistedResult(snap, now)
  /\ page' = [page EXCEPT !.timer = FALSE,
                          !.modal = @ \/ (/\ checkForRejoinableSession(snap, store, now)
                                          /\ snap.sessionId # page.route)]
  /\ did' = <<>>
  /\ UNCHANGED <<kept, store, connected, groupReady>>

\* handleStartNewSession: the user declines the rejoin
handleStartNewSession ==
  /\ page.modal
  /\ snap' = clearPersistedSession(snap)
  /\ page' = [page EXCEPT !.modal = FALSE]
  /\ did' = <<>>
  /\ UNCHANGED <<kept, store, connected, groupReady, offered>>

\* the Continuity Guard on a session page that is closed and opened
NextMount ==
  \/ NextGuard
  \/ PageClose
  \/ \E id \in Sessions : PageOpen(id)
  \/ MountCheck
  \/ handleStartNewSession

\* ---- specification of the controller ----------------------------------------

\* the session page right after mount: joined, the transport connected
Init ==
  /\ cs = ControlInit
  /\ auto = EngineInit
  /\ manual = EngineInit
  /\ connected = TRUE
  /\ groupReady = FALSE
  /\ view = [starting |-> FALSE, recording |-> FALSE, perm |-> FALSE,
             mperm |-> FALSE, ready |-> FALSE, conn |-> TRUE]
  /\ co = NoCycles
  /\ timerRef = "none"
  /\ permWatch = FALSE
  /\ devListener = FALSE
  /\ inflight = 0
  /\ halted = FALSE
  /\ store = StoreJoined
  /\ pushed = "none"
  /\ uiPaused = FALSE
  /\ ws = ServiceJoined
  /\ hook = HookJoined
  /\ invoked = "none"
  /\ snap = NoSnapshot
  /\ now = 0
  /\ offered = "nothing"
  /\ page = PageJoined
  /\ mic = FALSE
  /\ obs = ObsInit
  /\ did = <<>>

\* every step but the session-status pushes
Others ==
  \/ Render
  \/ \E p \in Counting, named \in BOOLEAN : TimerFire(p, named)
  \/ \E sink \in BOOLEAN, outcome \in {"ok", "reject", "ctorfail"} :
       AcquireSettle(sink, outcome)
  \/ StopControl
  \/ BeforeUnload
  \/ PermissionDenied
  \/ DeviceLost
  \/ ClearAutoStartError
  \/ \E isReady \in BOOLEAN : SetGroupReadiness(isReady)
  \/ ChunkConverted
  \/ \E granted \in BOOLEAN : AutoRequestPermission(granted)
  \/ AutoData
  \/ \E nonEmpty \in BOOLEAN : AutoFinal(nonEmpty)

Next ==
  \/ \E status \in {"active", "paused", "ended"} : StatusPush(status)
  \/ Others

Spec == Init /\ [][Next]_vars

\* the controller while the server pushes no 'ended' and no 'paused'
NextActive ==
  \/ StatusPush("active")
  \/ Others

SpecActive == Init /\ [][NextActive]_vars

\* the controller without the flow of audio chunks: the recorder delivers no
\* time slice and its final blob is empty
NextCountdown ==
  \/ \E status \in {"active", "paused", "ended"} : StatusPush(status)
  \/ Render
  \/ \E p \in Counting, named \in BOOLEAN : TimerFire(p, named)
  \/ \E sink \in BOOLEAN, outcome \in {"ok", "reject", "ctorfail"} :
       AcquireSettle(sink, outcome)
  \/ StopControl
  \/ BeforeUnload
  \/ PermissionDenied
  \/ DeviceLost
  \/ ClearAutoStartError
  \/ \E isReady \in BOOLEAN : SetGroupReadiness(isReady)
  \/ \E granted \in BOOLEAN : AutoRequestPermission(granted)
  \/ AutoFinal(FALSE)

SpecCountdown == Init /\ [][NextCountdown]_vars

\* the controller, with the last push handled recorded
NextObserved ==
  \/ \E status \in {"active", "paused", "ended"} : StatusPushObserved(status)
  \/ Others

SpecObserved == Init /\ [][NextObserved]_vars

\* the steps the page takes by itself: renders with their effects, the timers
\* of a countdown, the settling of a device acquisition
Internal ==
  \/ Render
  \/ \E p \in Counting, named \in BOOLEAN : TimerFire(p, named)
  \/ \E sink \in BOOLEAN, outcome \in {"ok", "reject", "ctorfail"} :
       AcquireSettle(sink, outcome)

\* the controller from the conditions of auto-start to the recording: pushes
\* (recorded), readiness updates and permission come when the server and the
\* user send them; the page's own steps are taken when they can be
NextAutoStart ==
  \/ \E status \in {"active", "paused", "ended"} : StatusPushObserved(status)
  \/ \E isReady \in BOOLEAN : SetGroupReadiness(isReady)
  \/ \E granted \in BOOLEAN : AutoRequestPermission(granted)
  \/ StopControl
  \/ AutoFinal(FALSE)
  \/ Internal

SpecAutoStart == Init /\ [][NextAutoStart]_vars /\ WF_vars(Internal)

\* ---- the session page's manual capture ------------------------------------

ctl == <<cs, co, timerRef, auto, groupReady, permWatch, devListener, halted,
        aux>>

\* handleManualStart: start-audio-stream, then startRecording of the manual engine
handleManualStart ==
  /\ StoreSessionStatus = "active"
  /\ PendingTotal(manual) < MaxPending
  /\ did' = wsEmit(connected, "start") \o <<"startRec">>
  /\ manual' = startRecordingCall(manual, view.mperm, view.conn)
  /\ obs' = Observe(obs, did')
  /\ UNCHANGED <<ctl, view, connected, inflight>>

\* the getUserMedia awaited by startRecording of the manual engine settles
ManualSettle(sink, outcome) ==
  /\ manual.pending[sink] > 0
  /\ SettleAllowed(manual, outcome)
  /\ manual' = startRecordingSettle(manual, sink, outcome)
  /\ did' = <<>>
  /\ UNCHANGED <<ctl, view, connected, inflight, obs>>

\* handleManualStop: end-audio-stream, then stopRecording of the manual engine
handleManualStop ==
  /\ did' = wsEmit(connected, "end") \o <<"stopRec">>
  /\ manual' = stopRecording(manual)
  /\ obs' = Observe(obs, did')
  /\ UNCHANGED <<ctl, view, connected, inflight>>

ManualRequestPermission ==
  /\ ~manual.probing
  /\ manual' = requestPermissionCall(manual)
  /\ did' = <<>>
  /\ UNCHANGED <<ctl, view, connected, inflight, obs>>

ManualProbeSettle(granted) ==
  /\ manual.probing
  /\ manual' = requestPermissionSettle(manual, granted)
  /\ did' = <<>>
  /\ UNCHANGED <<ctl, view, connected, inflight, obs>>

ManualPause ==
  /\ manual.rec = "recording"
  /\ manual' = pauseRecording(manual)
  /\ did' = <<>>
  /\ UNCHANGED <<ctl, view, connected, inflight, obs>>

ManualResume ==
  /\ manual.rec = "paused"
  /\ manual' = resumeRecording(manual)
  /\ did' = <<>>
  /\ UNCHANGED <<ctl, view, connected, inflight, obs>>

\* an animation frame of the manual engine's amplitude loop, which runs from a
\* successful start until stopRecording cancels it: pauseRecording leaves it alone
ManualLevel(level) ==
  /\ manual.rec \in Active
  /\ manual.audioLevel # level
  /\ manual' = monitorAudioLevel(manual, level)
  /\ did' = <<>>
  /\ UNCHANGED <<ctl, view, connected, inflight, obs>>

\* the manual recorder delivers a time slice: it is accumulated, and handed to
\* handleAudioChunk, which forwards it when the isConnected it closed over is true
ManualData ==
  /\ manual.rec = "recording"
  /\ manual.chunks < MaxChunks
  /\ manual.sink => inflight < MaxInflight
  /\ manual' = ondataavailable(manual)
  /\ inflight' = IF manual.sink THEN inflight + 1 ELSE inflight
  /\ did' = <<>>
  /\ UNCHANGED <<ctl, view, connected, obs>>

ManualFinal(nonEmpty) ==
  /\ manual.final
  /\ nonEmpty => manual.chunks < MaxChunks
  /\ (nonEmpty /\ manual.finalSink) => inflight < MaxInflight
  /\ manual' = finalEvents(manual, nonEmpty)
  /\ inflight' = IF nonEmpty /\ manual.finalSink THEN inflight + 1 ELSE inflight
  /\ did' = <<>>
  /\ UNCHANGED <<ctl, view, connected, obs>>

\* the socket's 'connect' / 'disconnect' events, mirrored into the store
TransportEvent(up) ==
  /\ connected' = up
  /\ did' = <<>>
  /\ UNCHANGED <<ctl, view, manual, inflight, obs>>

NextEngine ==
  \/ Render
  \/ handleManualStart
  \/ \E sink \in BOOLEAN, outcome \in {"ok", "reject", "ctorfail"} :
       ManualSettle(sink, outcome)
  \/ handleManualStop
  \/ ManualRequestPermission
  \/ \E granted \in BOOLEAN : ManualProbeSettle(granted)
  \/ ManualPause
  \/ ManualResume
  \/ \E level \in Levels : ManualLevel(level)
  \/ ManualData
  \/ \E nonEmpty \in BOOLEAN : ManualFinal(nonEmpty)
  \/ ChunkConverted
  \/ \E up \in BOOLEAN : TransportEvent(up)

SpecEngine == Init /\ [][NextEngine]_vars

\* the manual engine alone, the transport staying connected
NextCapture ==
  \/ Render
  \/ handleManualStart
  \/ \E sink \in BOOLEAN, outcome \in {"ok", "reject", "ctorfail"} :
       ManualSettle(sink, outcome)
  \/ handleManualStop
  \/ ManualRequestPermission
  \/ \E granted \in BOOLEAN : ManualProbeSettle(granted)
  \/ ManualPause
  \/ ManualResume
  \/ \E level \in Levels : ManualLevel(level)
  \/ ManualData
  \/ \E nonEmpty \in BOOLEAN : ManualFinal(nonEmpty)
  \/ ChunkConverted

SpecCapture == Init /\ [][NextCapture]_vars

TypeOKEngine ==
  /\ manual.chunks \in 0..MaxChunks
  /\ manual.leaked \in 0..MaxLeak
  /\ PendingTotal(manual) \in 0..MaxPending
  /\ inflight \in 0..MaxInflight

\* ---- manual and auto capture on one page --------------------------------------

\* the session page with both recorders: the auto-start path and the manual
\* controls, every acquisition succeeding and every permission request granted
NextBoth ==
  \/ Render
  \/ StatusPush("active")
  \/ \E p \in Counting, named \in BOOLEAN : TimerFire(p, named)
  \/ \E sink \in BOOLEAN : AcquireSettle(sink, "ok")
  \/ StopControl
  \/ AutoFinal(FALSE)
  \/ AutoRequestPermission(TRUE)
  \/ SetGroupReadiness(TRUE)
  \/ handleManualStart
  \/ \E sink \in BOOLEAN : ManualSettle(sink, "ok")
  \/ handleManualStop
  \/ ManualRequestPermission
  \/ ManualProbeSettle(TRUE)
  \/ ManualFinal(FALSE)

SpecBoth == Init /\ [][NextBoth]_vars

\* the auto capture with the pause control, every acquisition succeeding
NextPause ==
  \/ Render
  \/ StatusPush("active")
  \/ \E p \in Counting, named \in BOOLEAN : TimerFire(p, named)
  \/ \E sink \in BOOLEAN : AcquireSettle(sink, "ok")
  \/ StopControl
  \/ handlePause
  \/ handleResume
  \/ AutoData
  \/ \E nonEmpty \in BOOLEAN : AutoFinal(nonEmpty)
  \/ ChunkConverted
  \/ AutoRequestPermission(TRUE)
  \/ SetGroupReadiness(TRUE)

SpecPause == Init /\ [][NextPause]_vars

SpecStore == Init /\ [][NextStore]_vars

SpecManager == Init /\ [][NextManager]_vars

SpecHook == Init /\ [][NextHook]_vars

SpecGuard == Init /\ [][NextGuard]_vars

SpecPage == Init /\ [][NextPage]_vars

SpecMount == Init /\ [][NextMount]_vars

SpecLeader == Init /\ [][NextLeader]_vars

TypeOK ==
  /\ cs.countdown \in 0..3
  /\ timerRef \in Counting \cup {"none"}
  /\ timerRef # "none" => co[timerRef] > 0
  /\ \A p \in Counting : co[p] \in 0..MaxCycles
  /\ LiveCycles <= MaxCycles
  /\ inflight \in 0..MaxInflight
  /\ auto.leaked \in 0..MaxLeak

\* ---- claims ------------------------------------------------------------------

\* a step in which startCountdownThenRecord is entered
CountdownBegins == co'["t3"] > co["t3"]

\* a session-status push of 'ended' or 'paused' is handled
HaltPush == \E status \in {"ended", "paused"} : StatusPush(status)

\* the last one-second timer of an invocation fires: its countdown completes
CountdownCompletes == \E named \in BOOLEAN : TimerFire("t1", named)

\* C1: a countdown begins only while the controller is neither counting down nor
\* recording, whatever the handler's render saw, and start-audio-stream is
\* emitted only by the single live invocation while the controller is not recording
C1_NoSecondCountdown ==
  [][ /\ CountdownBegins => (~cs.isAutoStarting /\ ~cs.isAutoRecording)
      /\ Has(did', "start") => (~cs.isAutoRecording /\ LiveCycles = 1) ]_vars

\* C2: with no 'ended' or 'paused' push, a completing countdown emits exactly one
\* start-audio-stream followed by exactly one startRecording, for a stream that
\* is not open already, and the acquisition that follows leaves the controller
\* recording: isAutoRecording true, isAutoStarting false, countdown null
C2_OneStartThenRecording ==
  [][ /\ Has(did', "start") => (did' = <<"start", "startRec">> /\ ~obs.open)
      /\ PendingTotal(auto') < PendingTotal(auto)
           => (cs'.isAutoRecording /\ ~cs'.isAutoStarting /\ cs'.countdown = 0)
    ]_vars

\* C3: an 'ended' or 'paused' push handled while a countdown timer is pending
\* leaves no countdown timer pending (nothing can start from that countdown) and
\* the controller idle: isAutoStarting false, countdown null, isAutoRecording
\* false, no error
C3_PushCancelsCountdown ==
  [][ (HaltPush /\ CountingCycles > 0)
        => /\ CountingCycles' = 0
           /\ timerRef' = "none"
           /\ ~cs'.isAutoStarting
           /\ cs'.countdown = 0
           /\ ~cs'.isAutoRecording
           /\ cs'.autoStartError = "none" ]_vars

\* C4: while the last session-status push handled is 'ended' or 'paused', the
\* controller is not recording and its engine holds no device stream, however
\* the push interleaved with the countdown timers and the pending acquisition
C4_HaltedNotRecording ==
  halted => (~cs.isAutoRecording /\ auto.rec \notin Active)

\* C5: when the permission watcher reports 'denied' while the controller records,
\* the handler leaves the recording state with the error set, releases the
\* stream and then emits end-audio-stream, once; after a revocation no
\* end-audio-stream is emitted for a stream that is already ended
C5_RevocationEndsOnce ==
  [][ /\ (PermissionDenied /\ cs.isAutoRecording /\ auto.rec \in Active)
           => /\ ~cs'.isAutoRecording
              /\ cs'.autoStartError # "none"
              /\ auto'.rec \notin Active
              /\ did' = <<"stopRec", "end">>
      /\ (Has(did', "end") /\ cs.autoStartError = "revoked") => obs.open ]_vars

\* C6: no audio chunk is emitted once the end-audio-stream of its span has been
\* emitted (until the next start-audio-stream)
C6_NoChunkAfterEnd ==
  ~(Has(did, "chunk") /\ ~obs.open /\ obs.ends # "none")

\* C7: a handler that emits end-audio-stream while an engine captures has invoked
\* stopRecording before it
C7_StopBeforeEnd ==
  [][ (Has(did', "end") /\ (auto.rec \in Active \/ manual.rec \in Active))
        => Before(did', "stopRec", "end") ]_vars

\* C8: when a countdown completes while hasPermission (as autoRecorderRef holds
\* it) is false, the controller is left with autoStartError set, isAutoStarting
\* false and countdown null, and the step emits no start-audio-stream and makes
\* no startRecording call; start-audio-stream is emitted only with hasPermission
C8_AbortsWithoutPermission ==
  [][ /\ (CountdownCompletes /\ ~view.perm)
           => /\ cs'.autoStartError # "none"
              /\ ~cs'.isAutoStarting
              /\ cs'.countdown = 0
              /\ did' = <<>>
              /\ auto' = auto
      /\ Has(did', "start") => view.perm ]_vars

\* a countdown has completed without permission and was aborted
C8_Aborted ==
  /\ cs.autoStartError = "start_failed"
  /\ ~view.perm
  /\ ~cs.isAutoStarting
  /\ did = <<>>

\* C9: no countdown begins while an error raised by the permission or device
\* watcher is still set.  (After a failed start the error was raised with
\* hasPermission false, and the status handler needs hasPermission true to
\* begin a countdown: there the re-grant is the retry.)
C9_NoCountdownFromError ==
  [][ CountdownBegins => cs.autoStartError \notin {"revoked", "device"} ]_vars

\* C10: an engine holds at most one unreleased device stream, and startRecording
\* called while it captures starts no acquisition and keeps the chunks
C10_OneStream ==
  [][ /\ HeldStreams(manual') <= 1
      /\ (handleManualStart /\ manual.rec \in Active)
           => (manual'.pending = manual.pending
               /\ manual'.chunks = manual.chunks) ]_vars

\* C11: startRecording called with hasPermission false (the value its closure
\* holds) records the permission error, starts no device acquisition and
\* leaves isRecording, the recorder and the held stream as they were
C11_NoAcquisitionWithoutPermission ==
  [][ (handleManualStart /\ ~view.mperm)
        => /\ manual'.error = "not_granted"
           /\ manual'.pending = manual.pending
           /\ manual'.isRecording = manual.isRecording
           /\ manual'.rec = manual.rec
           /\ manual'.leaked = manual.leaked ]_vars

\* startRecording was called on an idle engine without permission
C11_Refused ==
  /\ Has(did, "startRec")
  /\ ~view.mperm
  /\ manual.error = "not_granted"
  /\ ~manual.isRecording
  /\ PendingTotal(manual) = 0

\* the device acquisition of the auto engine rejects, or its recorder cannot be
\* created
StartFails ==
  \E sink \in BOOLEAN, outcome \in {"reject", "ctorfail"} :
    AcquireSettle(sink, outcome)

\* C12: when the engine fails to start after the countdown the controller is
\* left in the error state and not recording, and after every step
\* isAutoRecording implies that the engine captures
C12_RecordingImpliesCapture ==
  [][ /\ StartFails => (cs'.autoStartError # "none" /\ ~cs'.isAutoRecording)
      /\ cs'.isAutoRecording => auto'.rec \in Active ]_vars

\* C13: a watcher handler that runs while the engine captures stops the engine
\* and issues end-audio-stream, whatever becomes of its issue report
C13_ReportNeverBlocksStop ==
  [][ ((PermissionDenied \/ DeviceLost) /\ auto.rec \in Active)
        => /\ auto'.rec \notin Active
           /\ Has(did', "stopRec")
           /\ Has(did', "end") ]_vars

\* C14: the manual recorder and the auto recorder never capture at the same time
C14_ManualAutoExclusive ==
  ~(auto.rec \in Active /\ manual.rec \in Active)

\* C15: while the user has paused the capturing engine, no audio chunk is
\* emitted and the recorder hands no chunk over for emission
C15_PausedEmitsNothing ==
  [][ (uiPaused /\ uiPaused' /\ auto.rec \in Active)
        => (~Has(did', "chunk") /\ inflight' <= inflight) ]_vars

\* C16: stopRecording called while no recorder is capturing changes nothing of
\* the engine (flags, level, error, blob, recorder, streams held), and a second
\* stopRecording right after any stopRecording changes nothing either
C16_StopIdempotent ==
  [][ handleManualStop
        => /\ manual.rec \notin Active => manual' = manual
           /\ stopRecording(manual') = manual' ]_vars

\* the stop control was pressed with no recorder ever created, after a failed start
C16_StoppedIdle ==
  Has(did, "stopRec") /\ manual.rec = "null" /\ manual.error = "access"

\* a full-group push (group-joined) for the group the store holds
SameGroupPush == \E name \in Names : onGroupJoined(store.group.id, name)

\* C17: a full-group push for the group the store holds does not revert a
\* readiness of true
C17_PushKeepsReadiness ==
  [][ (SameGroupPush /\ IsReady(store)) => IsReady(store') ]_vars

\* a step that applies setGroupReadiness: the leader's toggle or a group status push
ReadinessSet ==
  \/ handleToggleReady
  \/ \E groupId \in Groups, status \in {"waiting", "ready", "recording", "error"} :
        onGroupStatusChanged(groupId, status)

\* C18: setGroupReadiness changes group.isReady and nothing else of the store,
\* and setGroup(g) followed by setGroupReadiness(true) holds g's id and name
\* with isReady true
C18_ReadinessFrame ==
  [][ /\ ReadinessSet
        => /\ store' = [store EXCEPT !.group.isReady = store'.group.isReady]
           /\ store.group.some => store'.group.isReady \in {"true", "false"}
      /\ \A id \in Groups, name \in Names, leader \in BOOLEAN :
           LET g == AssignedGroup(id, name, leader)
               s == setGroupReadiness(setGroup(store, g), "true")
           IN s = [store EXCEPT !.group = [g EXCEPT !.isReady = "true"]] ]_vars

\* the leader of a named group has toggled it ready
C18_LeaderReady ==
  /\ store.group.isLeader = "true" /\ store.group.isReady = "true"
  /\ store.group.name = "B" /\ store.isRecording

\* C19: a group status update naming another group than the one the store
\* holds leaves the group as ready, or as not ready, as it was
C19_OtherGroupIgnored ==
  [][ \A groupId \in Groups, status \in {"waiting", "ready", "recording", "error"} :
        (onGroupStatusChanged(groupId, status)
           /\ store.group.some /\ groupId # store.group.id)
          => IsReady(store') = IsReady(store) ]_vars

\* C20: once a session-status push has been handled, the store's session.status
\* is the pushed status
C20_StoreFollowsPush ==
  [][ \A status \in Statuses :
        (onSessionStatusChanged(status) /\ store.session.some)
          => store'.session.status = status ]_vars

\* C21: logout, in one update, leaves every field of the store at its initial
\* value, whatever the store held
C21_LogoutResetsAll ==
  [][ Logout => (store' = StoreInit /\ ~connected' /\ ~groupReady') ]_vars

\* the store is back at its initial state after pushes were handled
C21_LoggedOut == store = StoreInit /\ pushed # "none"

\* C22: after a transport event has been handled, the store's isConnected is
\* the transport's connected state
C22_StoreMirrorsTransport ==
  [][ TransportEvents => (store'.isConnected <=> isConnected(ws')) ]_vars

\* C23: an outbound command invoked while the service's socket is not connected
\* emits nothing, calls no callback and changes neither the service nor the store
C23_CommandsNoOpOffline ==
  [][ \A c \in Commands :
        (Command(c) /\ ~isConnected(ws))
          => (did' = <<>> /\ ws' = ws /\ store' = store) ]_vars

\* a command was invoked after disconnect() and nothing was emitted
C23_InvokedOffline ==
  invoked \in Commands /\ ws.socket = 0 /\ ws.events # "none" /\ did = <<>>

\* C24: the Connection Manager never has more than one live transport
C24_OneTransport == LiveSockets(ws) <= 1

\* C25: a connect failure calls the terminal error callback exactly when it is
\* the fifth consecutive failure since the last successful connect
C25_TerminalErrorOnce ==
  [][ \A k \in SockIds :
        SockFail(k)
          => (Has(did', "onError")
                <=> ws'.reconnectAttempts = maxReconnectAttempts) ]_vars

\* the delay the service keeps after n consecutive connect failures
DelayAfter(n) == <<1000, 2000, 4000, 8000, 10000>>[IF n < 4 THEN n + 1 ELSE 5]

\* C26: the reconnect delay is 1000, 2000, 4000, 8000, 10000 after 0 to 4
\* consecutive connect failures and stays at the cap afterwards; a failure adds
\* one to the attempt counter, and a connect resets the counter to 0 and the
\* delay to 1000
C26_Backoff ==
  [][ /\ ws.reconnectDelay = DelayAfter(ws.reconnectAttempts)
      /\ ws'.reconnectDelay = DelayAfter(ws'.reconnectAttempts)
      /\ \A k \in SockIds :
           /\ SockFail(k) => ws'.reconnectAttempts = ws.reconnectAttempts + 1
           /\ SockOpen(k) => (ws'.reconnectAttempts = 0
                                /\ ws'.reconnectDelay = 1000) ]_vars

\* five consecutive failures have been counted and the delay is at its cap
C26_Capped == ws.reconnectAttempts = maxReconnectAttempts /\ ws.reconnectDelay = 10000

\* C27: every connect event handled by the hook sets the store's isConnected
\* and emits exactly one join-session, for the store's session and no other
C27_ConnectJoinsOnce ==
  [][ \A k \in SockIds :
        SockOpen(k)
          => /\ store'.isConnected
             /\ Count(did', JoinOf[store.session.id]) = 1
             /\ \A id \in Sessions \ {store.session.id} : ~Has(did', JoinOf[id]) ]_vars

\* a connect was handled after the session had changed: the new session is joined
C27_Rejoined ==
  Has(did, "onConnect") /\ Has(did, "join sess2") /\ store.isConnected

\* the hook is torn down, or the session it runs for changes
Teardown == HookUnmount \/ \E id \in Sessions : SessionChange(id)

C29_ExpiresByInactivity ==
  [][ (LoadPersisted /\ snap.some)
        => IF now - snap.lastActivity <= SESSION_TIMEOUT
             THEN offered' = "snapshot" /\ snap' = snap
             ELSE offered' = "null" /\ ~snap'.some ]_vars

\* C30: a push of a terminal session status (ended or completed) to a client
\* that holds a snapshot clears the snapshot, whatever the snapshot's status.
\* The push schedules nothing beyond the effects of its own step, so the
\* snapshot is gone at the end of that step or the push has not cleared it
C30_TerminalPushClears ==
  [][ \A status \in Terminal :
        (GuardPush(status) /\ snap.some) => ~snap'.some ]_vars

\* C31: when the session page mounted with a snapshot of another session in
\* storage, and the snapshot has not expired, the mount check offers the rejoin
\* choice, whatever ran between the mount and the check
C31_RejoinOffered ==
  [][ (/\ MountCheck
       /\ page.stale.some
       /\ now - page.stale.timestamp <= SESSION_TIMEOUT)
        => page'.modal ]_vars

\* the new readiness of a toggle: the negation of group.isReady
ToggleTo == store.group.isReady # "true"

C34_ReadinessReported ==
  \A b \in BOOLEAN : setGroupReadiness(store, TriOf(b)).group.isReady = TriOf(b)

\* C35: every end-audio-stream emitted closes a start-audio-stream that was
\* emitted before it and is still open, and closes it once
C35_EndsCloseStarts ==
  [][ Has(did', "end") => (obs.open /\ Count(did', "end") = 1) ]_vars

\* C36: while the hook stays mounted with the same token and session, a
\* re-render of the page does not tear down an established connection: it does
\* not disconnect the transport and emits no leave-session
C36_RerenderKeepsConnection ==
  [][ (HookRerun /\ isConnected(ws))
        => /\ isConnected(ws')
           /\ ~Has(did', "disconnect")
           /\ \A id \in Sessions : ~Has(did', LeaveOf[id]) ]_vars

\* C37: once the leader control's permission request has succeeded, the
\* hasPermission of the controller's engine, which the controller checks when
\* a push triggers it and when the countdown completes, is true
C37_PermissionShared ==
  mic => (auto.hasPermission /\ view.perm)

\* the session is active (as joined, and no stopping push since), the group is
\* ready, the controller's engine has permission and the controller is idle
Eligible ==
  /\ store.session.status = "active" /\ ~halted
  /\ groupReady
  /\ auto.hasPermission
  /\ ~cs.isAutoStarting /\ ~cs.isAutoRecording /\ cs.autoStartError = "none"

\* C38: whenever the session is active, the group ready, permission granted
\* and the controller idle, a countdown eventually starts, unless one of the
\* conditions is withdrawn first
C38_EventuallyCounts ==
  Eligible ~> (cs.isAutoStarting \/ ~Eligible)

\* C39: isAutoStarting and isAutoRecording are never both true, and countdown
\* is non-null only while isAutoStarting is true
C39_OneState ==
  /\ ~(cs.isAutoStarting /\ cs.isAutoRecording)
  /\ cs.countdown # 0 => cs.isAutoStarting

====
